---- MODULE Spec2Model ----
(***************************************************************************)
(* Provenance of chart archives: pkg/provenance/sign.go (Signatory,        *)
(* NewFromFiles, NewFromKeyring, ClearSign, Verify, messageBlock,          *)
(* parseMessageBlock, sumArchive) and the package command's clearsign      *)
(* step (cmd/helm/package.go).                                             *)
(*                                                                         *)
(* Strings (identity labels, ids) are sequences of characters.  A path is  *)
(* a sequence of path elements.  A file's bytes are a sequence of 0/1.     *)
(* Go's nil error is the string "nil".                                     *)
(***************************************************************************)
EXTENDS Integers, Sequences, FiniteSets, TLC

VARIABLES
    ringfile,   \* the entities the keyring file holds, in file order
    fs,         \* the file system: path -> file
    s,          \* the Signatory the caller holds
    last        \* the last call: its arguments, the faults it met, its result

vars == <<ringfile, fs, s, last>>

-----------------------------------------------------------------------------
(* Bounds *)

\* Longest archive content, in bytes.
MaxBytes == 2
\* Most entities in a keyring of the identity-resolution specification.
MaxRing == 2

-----------------------------------------------------------------------------
(* Strings *)

NilErr == "nil"

\* strings.Contains(n, id)
Contains(n, id) ==
    \E i \in 0..(Len(n) - Len(id)) : SubSeq(n, i + 1, i + Len(id)) = id

\* The ways a Go map with key set S may be ranged over: every order.
RangeOrders(S) ==
    {q \in [1..Cardinality(S) -> S] : \A x \in S : \E i \in DOMAIN q : q[i] = x}

-----------------------------------------------------------------------------
(* Entities and keyrings *)

\* A nil *openpgp.Entity.
\* PrivateKey is "nil" (the entity holds a public key only), "locked" (a private
\* key still encrypted under its passphrase) or "ok".
NilEntity == [key |-> 0, Identities |-> {}, PrivateKey |-> "nil"]

IsNil(e) == e.key = 0

\* A Signatory before any constructor ran.
NoSignatory == [made |-> FALSE, Entity |-> NilEntity, KeyRing |-> <<>>]

Signatory(e, ring) == [made |-> TRUE, Entity |-> e, KeyRing |-> ring]

\* The (entity, label) visits of the two range loops of NewFromKeyring, in the
\* order the loops make them: entities in ring order, the labels of entity i in
\* the order ord[i] (Go leaves a map's range order open).
RECURSIVE Visits(_, _, _)
Visits(ring, ord, i) ==
    IF i > Len(ring) THEN <<>>
    ELSE [k \in 1..Len(ord[i]) |-> [e |-> i, n |-> ord[i][k]]] \o Visits(ring, ord, i + 1)

\* Scan with the substring test made before the equality test.
RECURSIVE Scan_SubstringFirst(_, _, _, _, _)
Scan_SubstringFirst(visits, k, id, candidate, vague) ==
    IF k > Len(visits) THEN [exact |-> 0, candidate |-> candidate, vague |-> vague]
    ELSE IF Contains(visits[k].n, id)
         THEN Scan_SubstringFirst(visits, k + 1, id, visits[k].e, vague \/ candidate # 0)
    ELSE IF visits[k].n = id
         THEN [exact |-> visits[k].e, candidate |-> candidate, vague |-> vague]
    ELSE Scan_SubstringFirst(visits, k + 1, id, candidate, vague)

\* The loop body of NewFromKeyring from visit k on.  candidate is a ring index,
\* 0 for nil.  exact is the ring index of the entity returned from inside the
\* loop, 0 when the loop ran to its end.
RECURSIVE Scan(_, _, _, _, _)
Scan(visits, k, id, candidate, vague) ==
    IF k > Len(visits) THEN [exact |-> 0, candidate |-> candidate, vague |-> vague]
    ELSE IF visits[k].n = id
         THEN [exact |-> visits[k].e, candidate |-> candidate, vague |-> vague]
    ELSE IF Contains(visits[k].n, id)
         THEN Scan(visits, k + 1, id, visits[k].e, vague \/ candidate # 0)
    ELSE Scan(visits, k + 1, id, candidate, vague)

ErrVague == "more than one key contain the id"

\* NewFromKeyring(keyringfile, id), the keyring file holding ring.  The result
\* is the returned Signatory and error.
NewFromKeyring(ring, id, ord) ==
    IF id = <<>> THEN [s |-> Signatory(NilEntity, ring), err |-> NilErr]
    ELSE LET r == Scan(Visits(ring, ord, 1), 1, id, 0, FALSE) IN
         IF r.exact # 0 THEN [s |-> Signatory(ring[r.exact], ring), err |-> NilErr]
         ELSE IF r.vague THEN [s |-> Signatory(NilEntity, ring), err |-> ErrVague]
         ELSE IF r.candidate = 0 THEN [s |-> Signatory(NilEntity, ring), err |-> NilErr]
         ELSE [s |-> Signatory(ring[r.candidate], ring), err |-> NilErr]

\* The range orders of every entity of a ring.
RingOrders(ring) ==
    {ord \in [1..Len(ring) -> UNION {RangeOrders(ring[i].Identities) : i \in 1..Len(ring)}] :
        \A i \in 1..Len(ring) : ord[i] \in RangeOrders(ring[i].Identities)}

-----------------------------------------------------------------------------
(* Files *)

Bit == {0, 1}

\* Every byte content of at most n bytes.
BytesUpTo(n) == UNION {[1..k -> Bit] : k \in 0..n}

Bytes == BytesUpTo(MaxBytes)

\* A clear-signed document: the plaintext lines it shows, the key that made its
\* signature and the lines that signature was made over.  env is FALSE for
\* content that holds no clear-signature envelope (the empty string too).
EmptyDoc == [env |-> FALSE, text |-> <<>>, key |-> 0, over |-> <<>>]

NoFile == [kind |-> "none", bytes |-> <<>>, doc |-> EmptyDoc]
Directory == [kind |-> "dir", bytes |-> <<>>, doc |-> EmptyDoc]
Archive(b) == [kind |-> "file", bytes |-> b, doc |-> EmptyDoc]
TextFile(d) == [kind |-> "file", bytes |-> <<>>, doc |-> d]

Chart == <<"x", "a.tgz">>
Other == <<"y", "b.tgz">>
Prov == <<"x", "a.tgz.prov">>
DirP == <<"x">>
Gone == <<"x", "gone">>

Paths == {Chart, Other, Prov, DirP, Gone}

\* filepath.Base
Base(p) == p[Len(p)]

\* What goes wrong outside the program during one call: os.Open of the archive
\* fails; a read of the archive fails after `read` bytes (-1: no read fails);
\* the chart loader's own read fails; ioutil.ReadFile of the attestation fails.
\* One call meets at most one of them.
Faults ==
    {io \in [open : BOOLEAN, read : (-1)..MaxBytes, load : BOOLEAN, readSig : BOOLEAN] :
        Cardinality({x \in {"open", "read", "load", "readSig"} :
            \/ x = "open" /\ io.open
            \/ x = "read" /\ io.read # -1
            \/ x = "load" /\ io.load
            \/ x = "readSig" /\ io.readSig}) <= 1}

NoFault == [open |-> FALSE, read |-> -1, load |-> FALSE, readSig |-> FALSE]

Min(a, b) == IF a < b THEN a ELSE b

\* crypto.SHA256 then hex.EncodeToString, idealised: no two contents share a
\* digest.  The content b is read as a binary numeral after a leading 1.
RECURSIVE Sha256(_)
Sha256(b) == IF b = <<>> THEN 1 ELSE 2 * Sha256(SubSeq(b, 1, Len(b) - 1)) + b[Len(b)]

NoHash == [alg |-> "", sum |-> 0]

\* "sha256:" + sum
Tagged(sum) == [alg |-> "sha256", sum |-> sum]

\* io.Copy(hash, f): the bytes that reach the hash.  A directory opens and its
\* first read fails.
Copied(file, io) ==
    IF file.kind = "dir" THEN <<>>
    ELSE IF io.read = -1 THEN file.bytes
    ELSE SubSeq(file.bytes, 1, Min(io.read, Len(file.bytes)))

ErrOpen == "open: no such file or permission denied"

\* What a call records of sumArchive when it never called it.
Uncalled == [sum |-> 0, err |-> "uncalled"]

\* sumArchive(filename)
sumArchive(f, filename, io) ==
    IF f[filename].kind = "none" \/ io.open
    THEN [sum |-> 0, err |-> ErrOpen, steps |-> <<"open">>]
    ELSE [sum |-> Sha256(Copied(f[filename], io)), err |-> NilErr,
          steps |-> <<"open", "hash">>]

-----------------------------------------------------------------------------
(* The chart loader *)

\* Whether the bytes are a chart archive: a header byte 1.
IsChartArchive(b) == Len(b) > 0 /\ b[1] = 1

ErrLoad == "chart load failed"

\* chartutil.LoadFile(chartpath): the archive's metadata, or an error.
LoadFile(f, chartpath, io) ==
    IF io.load \/ f[chartpath].kind # "file" \/ ~IsChartArchive(f[chartpath].bytes)
    THEN [Metadata |-> "", err |-> ErrLoad]
    ELSE [Metadata |-> "hashtest", err |-> NilErr]

-----------------------------------------------------------------------------
(* The message block *)

\* The lines of a message block's text.
MdLine(name) == [k |-> "md", file |-> name, val |-> NoHash]
BlankLine == [k |-> "blank", file |-> "", val |-> NoHash]
SepLine == [k |-> "sep", file |-> "", val |-> NoHash]
FilesLine == [k |-> "files", file |-> "", val |-> NoHash]
SumLine(name, val) == [k |-> "sum", file |-> name, val |-> val]
BadLine == [k |-> "bad", file |-> "", val |-> NoHash]

\* messageBlock recording the bare digest, without the "sha256:" tag.
messageBlock_NoTag(f, chartpath, io) ==
    LET chash == sumArchive(f, chartpath, io)
        chart == LoadFile(f, chartpath, io)
    IN
    IF chash.err # NilErr
    THEN [b |-> <<>>, err |-> chash.err, chash |-> chash, steps |-> chash.steps]
    ELSE IF chart.err # NilErr
    THEN [b |-> <<>>, err |-> chart.err, chash |-> chash,
          steps |-> chash.steps \o <<"load">>]
    ELSE [b |-> <<MdLine(chart.Metadata), BlankLine, SepLine, FilesLine,
                  SumLine(Base(chartpath), [alg |-> "", sum |-> chash.sum])>>,
          err |-> NilErr, chash |-> chash,
          steps |-> chash.steps \o <<"load", "marshal">>]

\* messageBlock(chartpath): the buffer b and the error.
messageBlock(f, chartpath, io) ==
    LET chash == sumArchive(f, chartpath, io) IN
    IF chash.err # NilErr
    THEN [b |-> <<>>, err |-> chash.err, chash |-> chash, steps |-> chash.steps]
    ELSE LET chart == LoadFile(f, chartpath, io) IN
         IF chart.err # NilErr
         THEN [b |-> <<>>, err |-> chart.err, chash |-> chash,
               steps |-> chash.steps \o <<"load">>]
         ELSE [b |-> <<MdLine(chart.Metadata), BlankLine, SepLine, FilesLine,
                       SumLine(Base(chartpath), Tagged(chash.sum))>>,
               err |-> NilErr, chash |-> chash,
               steps |-> chash.steps \o <<"load", "marshal">>]

\* bytes.Split(data, "\n...\n") on lines: a "..." line separates when a line
\* end precedes it that no earlier separator took.
RECURSIVE SplitFrom(_, _, _, _)
SplitFrom(text, i, cur, prevSep) ==
    IF i > Len(text) THEN <<cur>>
    ELSE IF text[i].k = "sep" /\ i > 1 /\ ~prevSep
         THEN <<cur>> \o SplitFrom(text, i + 1, <<>>, TRUE)
    ELSE SplitFrom(text, i + 1, Append(cur, text[i]), FALSE)

Split(text) == SplitFrom(text, 1, <<>>, FALSE)

\* The last line before line i of part that is not blank, 0 when none.
RECURSIVE PrevLine(_, _)
PrevLine(part, i) ==
    IF i <= 1 THEN 0
    ELSE IF part[i - 1].k # "blank" THEN i - 1
    ELSE PrevLine(part, i - 1)

\* Whether yaml.Unmarshal accepts the part: no line that is not YAML, and every
\* checksum entry nested under "files:".
WellFormed(part) ==
    \A i \in 1..Len(part) :
        /\ part[i].k \notin {"bad", "sep"}
        /\ part[i].k = "sum" =>
              /\ PrevLine(part, i) # 0
              /\ part[PrevLine(part, i)].k \in {"files", "sum"}

\* The Files map yaml.Unmarshal fills: a later entry of a name wins.
FilesOf(part) ==
    LET names == {part[i].file : i \in {j \in 1..Len(part) : part[j].k = "sum"}}
        lastOf(n) == CHOOSE i \in 1..Len(part) :
                        /\ part[i].k = "sum" /\ part[i].file = n
                        /\ \A j \in (i + 1)..Len(part) :
                              ~(part[j].k = "sum" /\ part[j].file = n)
    IN [n \in names |-> part[lastOf(n)].val]

ErrParts == "message block must have at least two parts"
ErrYaml == "yaml: unmarshal error"

\* parseMessageBlock(data): the checksum collection and the error.
parseMessageBlock(data) ==
    LET parts == Split(data) IN
    IF Len(parts) < 2 THEN [Files |-> <<>>, err |-> ErrParts]
    ELSE IF ~WellFormed(parts[1]) THEN [Files |-> <<>>, err |-> ErrYaml]
    ELSE IF ~WellFormed(parts[2]) THEN [Files |-> <<>>, err |-> ErrYaml]
    ELSE [Files |-> FilesOf(parts[2]), err |-> NilErr]

-----------------------------------------------------------------------------
(* Signing *)

ErrNoKey == "private key not found"
ErrStat == "stat: no such file or directory"
ErrSignDir == "cannot sign a directory"
ErrLocked == "openpgp: invalid argument: signing key is encrypted"
ErrPanic == "panic: nil pointer dereference"

\* clearsign.Encode(out, key, config), io.Copy(w, b), w.Close(): the document.
ClearsignEncode(e, b) == [env |-> TRUE, text |-> b, key |-> e.key, over |-> b]

\* Signatory.ClearSign(chartpath): the returned string (a document) and error.
\* panic tells that the call did not return: s.Entity was nil when line 156
\* read s.Entity.PrivateKey.
ClearSign(sg, f, chartpath, io) ==
    LET Ret(out, err, panic, chash, steps) ==
            [out |-> out, err |-> err, panic |-> panic,
             sum |-> [sum |-> chash.sum, err |-> chash.err], steps |-> steps]
    IN
    IF IsNil(sg.Entity) THEN Ret(EmptyDoc, ErrPanic, TRUE, Uncalled, <<>>)
    ELSE IF sg.Entity.PrivateKey = "nil" THEN Ret(EmptyDoc, ErrNoKey, FALSE, Uncalled, <<>>)
    ELSE IF f[chartpath].kind = "none"
    THEN Ret(EmptyDoc, ErrStat, FALSE, Uncalled, <<"stat">>)
    ELSE IF f[chartpath].kind = "dir"
    THEN Ret(EmptyDoc, ErrSignDir, FALSE, Uncalled, <<"stat">>)
    ELSE LET mb == messageBlock(f, chartpath, io) IN
         IF mb.err # NilErr
         THEN Ret(EmptyDoc, NilErr, FALSE, mb.chash, <<"stat">> \o mb.steps)
         ELSE IF sg.Entity.PrivateKey = "locked"
         THEN Ret(EmptyDoc, ErrLocked, FALSE, mb.chash,
                  <<"stat">> \o mb.steps \o <<"encode">>)
         ELSE Ret(ClearsignEncode(sg.Entity, mb.b), NilErr, FALSE, mb.chash,
                  <<"stat">> \o mb.steps \o <<"encode", "sign">>)

-----------------------------------------------------------------------------
(* Verifying *)

ErrVerifyDir == "cannot be a directory"
ErrDecode == "failed to decode signature"
ErrUnknownIssuer == "openpgp: signature made by unknown entity"
ErrBadSig == "openpgp: invalid signature"
ErrNoSum == "provenance does not contain a SHA for a file"
ErrMismatch == "sha256 sum does not match"

NoVerification == [SignedBy |-> NilEntity, FileHash |-> NoHash]

\* Signatory.decodeSignature(filename): the block (a document), or an error.
decodeSignature(f, filename, io) ==
    IF io.readSig \/ f[filename].kind # "file"
    THEN [block |-> EmptyDoc, err |-> "read failed", steps |-> <<"readsig">>]
    ELSE IF ~f[filename].doc.env
    THEN [block |-> EmptyDoc, err |-> "signature block not found",
          steps |-> <<"readsig", "decode">>]
    ELSE [block |-> f[filename].doc, err |-> NilErr, steps |-> <<"readsig", "decode">>]

\* verifySignature that looks the issuer up and never checks the signed bytes.
verifySignature_IssuerOnly(sg, block) ==
    LET held == {i \in 1..Len(sg.KeyRing) : sg.KeyRing[i].key = block.key} IN
    IF held = {} THEN [by |-> NilEntity, err |-> ErrUnknownIssuer]
    ELSE [by |-> sg.KeyRing[CHOOSE i \in held : \A j \in held : i <= j], err |-> NilErr]

\* Signatory.verifySignature(block): openpgp.CheckDetachedSignature over the
\* block's bytes with the keyring: the signer, or an error.
verifySignature(sg, block) ==
    LET held == {i \in 1..Len(sg.KeyRing) : sg.KeyRing[i].key = block.key} IN
    IF held = {} THEN [by |-> NilEntity, err |-> ErrUnknownIssuer]
    ELSE IF block.over # block.text THEN [by |-> NilEntity, err |-> ErrBadSig]
    ELSE [by |-> sg.KeyRing[CHOOSE i \in held : \A j \in held : i <= j], err |-> NilErr]

\* The stat loop of Verify over <<chartpath, sigpath>> from index i on.
RECURSIVE StatLoop(_, _, _)
StatLoop(f, names, i) ==
    IF i > Len(names) THEN NilErr
    ELSE IF f[names[i]].kind = "none" THEN ErrStat
    ELSE IF f[names[i]].kind = "dir" THEN ErrVerifyDir
    ELSE StatLoop(f, names, i + 1)

\* Compare with ver.FileHash assigned before the two checks.
Compare_HashFirst(by, sum, Files, basename) ==
    IF basename \notin DOMAIN Files
    THEN [ver |-> [SignedBy |-> by, FileHash |-> Tagged(sum)], err |-> ErrNoSum]
    ELSE IF Files[basename] # Tagged(sum)
    THEN [ver |-> [SignedBy |-> by, FileHash |-> Tagged(sum)], err |-> ErrMismatch]
    ELSE [ver |-> [SignedBy |-> by, FileHash |-> Tagged(sum)], err |-> NilErr]

\* The checksum comparison of Verify, lines 216 to 227.
Compare(by, sum, Files, basename) ==
    IF basename \notin DOMAIN Files
    THEN [ver |-> [SignedBy |-> by, FileHash |-> NoHash], err |-> ErrNoSum]
    ELSE IF Files[basename] # Tagged(sum)
    THEN [ver |-> [SignedBy |-> by, FileHash |-> NoHash], err |-> ErrMismatch]
    ELSE [ver |-> [SignedBy |-> by, FileHash |-> Tagged(sum)], err |-> NilErr]

\* Signatory.Verify(chartpath, sigpath): the Verification and the error.
Verify(sg, f, chartpath, sigpath, io) ==
    LET Ret(ver, err, chash, steps) ==
            [ver |-> ver, err |-> err, sum |-> [sum |-> chash.sum, err |-> chash.err],
             steps |-> steps]
        st == StatLoop(f, <<chartpath, sigpath>>, 1)
    IN
    IF st # NilErr THEN Ret(NoVerification, st, Uncalled, <<"stat">>)
    ELSE LET sig == decodeSignature(f, sigpath, io) IN
    IF sig.err # NilErr
    THEN Ret(NoVerification, ErrDecode, Uncalled, <<"stat">> \o sig.steps)
    ELSE LET chk == verifySignature(sg, sig.block)
             st2 == <<"stat">> \o sig.steps \o <<"checksig">>
         IN
    IF chk.err # NilErr THEN Ret(NoVerification, chk.err, Uncalled, st2)
    ELSE LET sum == sumArchive(f, chartpath, io)
             signed == [SignedBy |-> chk.by, FileHash |-> NoHash]
         IN
    IF sum.err # NilErr THEN Ret(signed, sum.err, sum, st2 \o sum.steps)
    ELSE LET pm == parseMessageBlock(sig.block.text)
             st3 == st2 \o sum.steps \o <<"parse">>
         IN
    IF pm.err # NilErr THEN Ret(signed, pm.err, sum, st3)
    ELSE LET c == Compare(chk.by, sum.sum, pm.Files, Base(chartpath)) IN
         Ret(c.ver, c.err, sum, st3 \o <<"compare">>)

-----------------------------------------------------------------------------
(* The package command's signing step *)

\* filename + ".prov"
ProvOf(filename) == IF filename = Chart THEN Prov ELSE Gone

\* packageCmd.clearsign(filename) with --key key: the error it returns, whether
\* it reached ioutil.WriteFile, and the content it wrote.
PackageSign(ring, f, filename, key, ord, io) ==
    LET signer == NewFromKeyring(ring, key, ord) IN
    IF signer.err # NilErr
    THEN [err |-> signer.err, panic |-> FALSE, wrote |-> FALSE, sig |-> EmptyDoc,
          steps |-> <<>>]
    ELSE LET cs == ClearSign(signer.s, f, filename, io) IN
         IF cs.panic \/ cs.err # NilErr
         THEN [err |-> cs.err, panic |-> cs.panic, wrote |-> FALSE, sig |-> EmptyDoc,
               steps |-> cs.steps]
         ELSE [err |-> NilErr, panic |-> FALSE, wrote |-> TRUE, sig |-> cs.out,
               steps |-> cs.steps \o <<"write">>]

-----------------------------------------------------------------------------
(* State *)

Alice == [key |-> 1, Identities |-> {<<"a", "b">>}, PrivateKey |-> "ok"]
Bob == [key |-> 2, Identities |-> {<<"b", "b">>}, PrivateKey |-> "nil"]
Carol == [key |-> 3, Identities |-> {<<"a">>}, PrivateKey |-> "locked"]
Mallory == [key |-> 4, Identities |-> {<<"a", "b">>}, PrivateKey |-> "ok"]

\* The keyring file of the signing specification.
MainRing == <<Alice, Bob, Carol>>

\* The key files NewFromFiles may be given, a missing one among them.
KeyFiles == {Alice, Bob, Carol, Mallory, NilEntity}

\* The labels and the ids of the identity-resolution specification.
Labels == {<<"a">>, <<"a", "b">>, <<"b", "a">>}
Ids == {<<>>, <<"a">>, <<"b">>, <<"a", "b">>, <<"b", "a">>}

\* Every keyring of at most n entities, each holding at least one label.
Rings(n) ==
    UNION {{r \in [1..k -> [key : 1..k, Identities : (SUBSET Labels) \ {{}},
                            PrivateKey : {"ok"}]] :
                \A i \in 1..k : r[i].key = i} : k \in 0..n}

NoCall ==
    [op |-> "none", chartpath |-> <<>>, sigpath |-> <<>>, id |-> <<>>, io |-> NoFault,
     out |-> EmptyDoc, err |-> NilErr, panic |-> FALSE, ver |-> NoVerification,
     entity |-> NilEntity, sum |-> Uncalled, steps |-> <<>>]

Range(q) == {q[i] : i \in 1..Len(q)}

\* The faults a call never met are left at their defaults.
Met(io, file, steps) ==
    /\ "open" \notin Range(steps) => ~io.open
    /\ "hash" \notin Range(steps) => io.read = -1
    /\ "load" \notin Range(steps) => ~io.load
    /\ "readsig" \notin Range(steps) => ~io.readSig
    /\ io.read <= Len(file.bytes)

Files0(b) ==
    [p \in Paths |->
        IF p = Chart THEN Archive(b)
        ELSE IF p = Other THEN Archive(<<0>>)
        ELSE IF p = DirP THEN Directory
        ELSE NoFile]

Init ==
    /\ ringfile = MainRing
    /\ \E b \in {c \in Bytes : IsChartArchive(c)} : fs = Files0(b)
    /\ s = NoSignatory
    /\ last = NoCall

InitResolve ==
    /\ ringfile \in Rings(MaxRing)
    /\ fs = Files0(<<1>>)
    /\ s = NoSignatory
    /\ last = NoCall

-----------------------------------------------------------------------------
(* Actions *)

\* A caller constructs its Signatory from the keyring file and an id, and keeps
\* it when no error came back.
NewFromKeyringCall(id, ord) ==
    /\ ~s.made
    /\ LET r == NewFromKeyring(ringfile, id, ord) IN
       /\ s' = IF r.err = NilErr THEN r.s ELSE s
       /\ last' = [NoCall EXCEPT !.op = "NewFromKeyring", !.id = id, !.err = r.err,
                                 !.entity = r.s.Entity]
    /\ UNCHANGED <<ringfile, fs>>

\* NewFromFiles(keyfile, keyringfile): loadKey fails on a missing key file.
NewFromFiles(e, ring) ==
    IF IsNil(e) THEN [s |-> NoSignatory, err |-> ErrOpen]
    ELSE [s |-> Signatory(e, ring), err |-> NilErr]

NewFromFilesCall(e) ==
    /\ ~s.made
    /\ LET r == NewFromFiles(e, ringfile) IN
       /\ s' = IF r.err = NilErr THEN r.s ELSE s
       /\ last' = [NoCall EXCEPT !.op = "NewFromFiles", !.err = r.err, !.entity = r.s.Entity]
    /\ UNCHANGED <<ringfile, fs>>

ClearSignCall(chartpath, io) ==
    /\ s.made
    /\ LET r == ClearSign(s, fs, chartpath, io) IN
       /\ Met(io, fs[chartpath], r.steps)
       /\ last' = [NoCall EXCEPT !.op = "ClearSign", !.chartpath = chartpath, !.io = io,
                                 !.out = r.out, !.err = r.err, !.panic = r.panic,
                                 !.sum = r.sum, !.steps = r.steps]
    /\ UNCHANGED <<ringfile, fs, s>>

\* The caller of ClearSign writes the signature it got beside the archive, as
\* packageCmd.clearsign does after a nil error.
SaveSignature ==
    /\ last.op = "ClearSign"
    /\ last.chartpath = Chart
    /\ ~last.panic
    /\ last.err = NilErr
    /\ fs' = [fs EXCEPT ![ProvOf(last.chartpath)] = TextFile(last.out)]
    /\ last' = [last EXCEPT !.op = "WriteFile"]
    /\ UNCHANGED <<ringfile, s>>

\* helm package --sign --key key, from the archive it saved on.
PackageSignCall(key, ord, io) ==
    /\ key # <<>>
    /\ LET r == PackageSign(ringfile, fs, Chart, key, ord, io) IN
       /\ Met(io, fs[Chart], r.steps)
       /\ fs' = IF r.wrote THEN [fs EXCEPT ![ProvOf(Chart)] = TextFile(r.sig)] ELSE fs
       /\ last' = [NoCall EXCEPT !.op = "package", !.chartpath = Chart, !.io = io, !.out = r.sig, !.err = r.err,
                                 !.panic = r.panic, !.steps = r.steps]
    /\ UNCHANGED <<ringfile, s>>

VerifyCall(chartpath, sigpath, io) ==
    /\ s.made
    /\ LET r == Verify(s, fs, chartpath, sigpath, io) IN
       /\ Met(io, fs[chartpath], r.steps)
       /\ last' = [NoCall EXCEPT !.op = "Verify", !.chartpath = chartpath,
                                 !.sigpath = sigpath, !.io = io, !.ver = r.ver,
                                 !.err = r.err, !.sum = r.sum, !.steps = r.steps]
    /\ UNCHANGED <<ringfile, fs, s>>

\* Someone replaces the archive's bytes.
TamperArchive(b) ==
    /\ b # fs[Chart].bytes
    /\ fs' = [fs EXCEPT ![Chart] = Archive(b)]
    /\ last' = NoCall
    /\ UNCHANGED <<ringfile, s>>

\* The lines an edit of the attestation may put in place of line old: another
\* chart name, the digest of the archive as it is now, or no YAML at all.
TamperLines(old) ==
    IF old.k = "md" THEN {MdLine("evil")}
    ELSE IF old.k = "sum"
    THEN {SumLine(old.file, Tagged(Sha256(fs[Chart].bytes))), BadLine}
    ELSE {}

\* Someone edits a line of a signed attestation's plaintext, and leaves its
\* signature as it was.
TamperProv(i, l) ==
    /\ fs[Prov].kind = "file"
    /\ fs[Prov].doc.env
    /\ fs[Prov].doc.text = fs[Prov].doc.over
    /\ i \in 1..Len(fs[Prov].doc.text)
    /\ l \in TamperLines(fs[Prov].doc.text[i])
    /\ l # fs[Prov].doc.text[i]
    /\ fs' = [fs EXCEPT ![Prov].doc.text = [@ EXCEPT ![i] = l]]
    /\ last' = NoCall
    /\ UNCHANGED <<ringfile, s>>

\* The message blocks a holder of a keyring key may sign with another tool: one
\* with no separator, one whose checksum part is no YAML.
ForeignTexts ==
    {<<MdLine("hashtest")>>,
     <<MdLine("hashtest"), BlankLine, SepLine, BadLine>>}

\* An attestation made outside this program is put beside the archive.
ForeignProv(e, text) ==
    /\ fs[Prov].kind = "none"
    /\ fs' = [fs EXCEPT ![Prov] = TextFile(ClearsignEncode(e, text))]
    /\ last' = NoCall
    /\ UNCHANGED <<ringfile, s>>

SignArgs == {Chart, DirP, Gone}
VerifyArgs ==
    {<<Chart, Prov>>, <<Other, Prov>>, <<DirP, Prov>>, <<Gone, Prov>>,
     <<Chart, DirP>>, <<Chart, Gone>>, <<Chart, Chart>>}

Next ==
    \/ \E id \in Ids : \E ord \in RingOrders(ringfile) : NewFromKeyringCall(id, ord)
    \/ \E e \in KeyFiles : NewFromFilesCall(e)
    \/ \E c \in SignArgs : \E io \in Faults : ClearSignCall(c, io)
    \/ SaveSignature
    \/ \E a \in VerifyArgs : \E io \in Faults : VerifyCall(a[1], a[2], io)
    \/ \E b \in Bytes : TamperArchive(b)
    \/ \E i \in 1..Len(fs[Prov].doc.text) : \E l \in {MdLine("evil"), BadLine} \cup
            {SumLine(Base(Chart), Tagged(Sha256(b))) : b \in Bytes} : TamperProv(i, l)
    \/ \E text \in ForeignTexts : ForeignProv(Alice, text)

Spec == Init /\ [][Next]_vars

NextPackage ==
    \/ \E key \in Ids : \E ord \in RingOrders(ringfile) : \E io \in Faults :
          PackageSignCall(key, ord, io)
    \/ \E b \in Bytes : TamperArchive(b)

SpecPackage == Init /\ [][NextPackage]_vars

NextResolve ==
    \E id \in Ids : \E ord \in RingOrders(ringfile) : NewFromKeyringCall(id, ord)

SpecResolve == InitResolve /\ [][NextResolve]_vars

-----------------------------------------------------------------------------
(* Properties *)

\* An archive file: a regular file that the chart loader loads.
IsArchive(p) == fs[p].kind = "file" /\ IsChartArchive(fs[p].bytes)

\* The signing identity is an entity of the Signatory's own keyring.
InKeyRing(sg) == \E i \in 1..Len(sg.KeyRing) : sg.KeyRing[i] = sg.Entity

\* The round trip for the signing identities whose PrivateKey is in keys: on an
\* archive file, with no read failing, ClearSign returns a document and no
\* error, and Verify of the archive against a file holding that document
\* returns no error and the tagged digest of the archive's bytes.
RoundTrip(keys) ==
    LET ready == s.made /\ ~IsNil(s.Entity) /\ s.Entity.PrivateKey \in keys /\ InKeyRing(s) IN
    /\ (last.op = "ClearSign" /\ ready /\ IsArchive(last.chartpath) /\ last.io = NoFault)
          => ~last.panic /\ last.err = NilErr /\ last.out.env
    /\ (/\ last.op = "Verify" /\ ready /\ IsArchive(last.chartpath) /\ last.io = NoFault
        /\ fs[last.sigpath].kind = "file"
        /\ fs[last.sigpath].doc = ClearSign(s, fs, last.chartpath, NoFault).out)
          => /\ last.err = NilErr
             /\ last.ver.FileHash = Tagged(Sha256(fs[last.chartpath].bytes))

\* C1 as stated: the round trip holds for every signing identity that has a
\* private key (s.Entity.PrivateKey is not nil) and is in the keyring.
C1_RoundTripAnyPrivateKey == RoundTrip({"ok", "locked"})

\* C1 as amended: the round trip holds for every signing identity whose private
\* key is decrypted (not locked under a passphrase) and that is in the keyring:
\* ClearSign returns no error and Verify of its output returns no error and a
\* FileHash equal to "sha256:" and the digest of the archive's bytes.
C1_RoundTrip == RoundTrip({"ok"})

\* A Verify of an archive against the saved output of ClearSign succeeded.
C1_Witness ==
    /\ last.op = "Verify" /\ last.err = NilErr /\ last.io = NoFault
    /\ s.Entity.PrivateKey = "ok" /\ InKeyRing(s)
    /\ IsArchive(last.chartpath)
    /\ fs[last.sigpath].doc = ClearSign(s, fs, last.chartpath, NoFault).out
    /\ last.ver.FileHash = Tagged(Sha256(fs[last.chartpath].bytes))

\* The digests the text records for the file name base.
Recorded(text, base) ==
    {text[i].val : i \in {j \in 1..Len(text) : text[j].k = "sum" /\ text[j].file = base}}

\* C2: when Verify reaches its checksum comparison and the archive's bytes are
\* not the bytes whose digest the attestation records, Verify does not return
\* success, and with an entry for the basename it returns the mismatch error.
C2_ArchiveTamperDetected ==
    (/\ last.op = "Verify"
     /\ "compare" \in Range(last.steps)
     /\ Tagged(Sha256(fs[last.chartpath].bytes))
           \notin Recorded(fs[last.sigpath].doc.text, Base(last.chartpath)))
       => /\ last.err # NilErr
          /\ Recorded(fs[last.sigpath].doc.text, Base(last.chartpath)) # {}
                => last.err = ErrMismatch

\* C3: Verify of regular files whose attestation decodes but shows a plaintext
\* other than the signed one fails with the signature error right after the
\* signature check: the archive is never opened or hashed, the message block
\* never parsed, no checksum compared, nothing put in the Verification.  And
\* an integrity error is reported only for an attestation whose signature
\* verifies against the keyring.
C3_AttestationTamperDetected ==
    last.op = "Verify" =>
       LET d == fs[last.sigpath].doc IN
       /\ (/\ fs[last.chartpath].kind = "file" /\ fs[last.sigpath].kind = "file"
           /\ ~last.io.readSig /\ d.env /\ d.text # d.over)
             => /\ last.err \in {ErrBadSig, ErrUnknownIssuer}
                /\ last.steps = <<"stat", "readsig", "decode", "checksig">>
                /\ last.sum = Uncalled
                /\ last.ver = NoVerification
       /\ last.err \in {ErrNoSum, ErrMismatch}
             => /\ d.env /\ d.text = d.over
                /\ \E i \in 1..Len(s.KeyRing) : s.KeyRing[i].key = d.key

\* Verify met an attestation, signed by a keyring key, whose checksum entry
\* was changed after signing.
C3_Witness ==
    /\ last.op = "Verify" /\ last.err = ErrBadSig
    /\ LET d == fs[last.sigpath].doc IN
       /\ d.env
       /\ \E i \in 1..Len(s.KeyRing) : s.KeyRing[i].key = d.key
       /\ \E i \in 1..Len(d.over) : d.over[i].k = "sum" /\ d.text[i] # d.over[i]

\* The entities of the ring with a label that contains id.
Matching(ring, id) == {i \in 1..Len(ring) : \E n \in ring[i].Identities : Contains(n, id)}

\* Some label of the ring equals id.
HasExact(ring, id) == \E i \in 1..Len(ring) : id \in ring[i].Identities

\* C4: for a non-empty id NewFromKeyring returns the ambiguity error exactly
\* when no label equals id and more than one entity has a label containing id;
\* when no label equals id and exactly one entity has labels containing id, it
\* returns no error and that entity as the signing identity.
C4_AmbiguityByEntities ==
    (last.op = "NewFromKeyring" /\ last.id # <<>>) =>
       /\ (last.err = ErrVague)
             <=> (~HasExact(ringfile, last.id) /\ Cardinality(Matching(ringfile, last.id)) > 1)
       /\ (~HasExact(ringfile, last.id) /\ Cardinality(Matching(ringfile, last.id)) = 1)
             => /\ last.err = NilErr
                /\ \E i \in Matching(ringfile, last.id) : last.entity = ringfile[i]

\* C5: for a non-empty id that equals a label of some entity of the keyring,
\* NewFromKeyring returns no error and a signing identity, an entity of the
\* keyring, that carries the label id.
C5_ExactMatchWins ==
    (last.op = "NewFromKeyring" /\ last.id # <<>> /\ HasExact(ringfile, last.id)) =>
       /\ last.err = NilErr
       /\ last.id \in last.entity.Identities
       /\ \E i \in 1..Len(ringfile) : ringfile[i] = last.entity

\* An exact match was returned from behind an entity that only contains the id,
\* with a second entity that only contains it too.
C5_Witness ==
    /\ last.op = "NewFromKeyring" /\ last.id # <<>> /\ last.err = NilErr
    /\ \E i, j \in 1..Len(ringfile) :
          /\ i < j
          /\ i \in Matching(ringfile, last.id) /\ last.id \notin ringfile[i].Identities
          /\ last.id \in ringfile[j].Identities
          /\ last.entity = ringfile[j]

\* C6: ClearSign on a Signatory with no signing identity, or with one that has
\* no private key, returns "private key not found" and an empty signature,
\* without a crash and before any file is looked at.
C6_NoPrivateKey ==
    (last.op = "ClearSign" /\ (IsNil(s.Entity) \/ s.Entity.PrivateKey = "nil")) =>
       /\ ~last.panic
       /\ last.err = ErrNoKey
       /\ last.out = EmptyDoc
       /\ last.steps = <<>>

\* C7: the package command's ClearSign returns a nil error only with a
\* clear-signed document, so that the .prov file the command writes holds a
\* signature.
C7_NoSwallowedError ==
    (last.op = "package" /\ ~last.panic /\ last.err = NilErr) =>
       /\ last.out.env
       /\ fs[Prov] = TextFile(last.out)
       /\ fs[Prov].doc.env

\* C8 as stated: whenever Verify returns an error, both fields of the returned
\* Verification are unset.
C8_ZeroOnFailure ==
    (last.op = "Verify" /\ last.err # NilErr) => last.ver = NoVerification

\* C8 as amended: FileHash is set exactly when Verify returns no error, and is
\* then the tagged digest Verify computed; SignedBy is set exactly when the
\* signature check passed, also on the failures that come after it; on the
\* failures up to the signature check both fields are unset.
C8_FieldsOnFailure ==
    last.op = "Verify" =>
       /\ (last.ver.FileHash # NoHash) <=> (last.err = NilErr)
       /\ last.err = NilErr => last.ver.FileHash = Tagged(last.sum.sum)
       /\ (~IsNil(last.ver.SignedBy))
             <=> ("checksig" \in Range(last.steps)
                    /\ last.err \notin {ErrUnknownIssuer, ErrBadSig})
       /\ last.err \in {ErrStat, ErrVerifyDir, ErrDecode, ErrUnknownIssuer, ErrBadSig}
             => last.ver = NoVerification

\* Verify failed on the checksum comparison and names the signer.
C8_Witness ==
    /\ last.op = "Verify" /\ last.err = ErrMismatch
    /\ ~IsNil(last.ver.SignedBy) /\ last.ver.FileHash = NoHash

\* C9: sumArchive returns an error when the file cannot be opened or a read
\* fails, and a digest with a nil error only for the file's whole content.
C9_DigestOfWholeContent ==
    last.op \in {"ClearSign", "Verify"} =>
       /\ (last.io.open /\ "open" \in Range(last.steps)) => last.sum.err = ErrOpen
       /\ last.sum.err = NilErr
             => /\ last.io.read = -1
                /\ last.sum.sum = Sha256(fs[last.chartpath].bytes)

\* C10: ClearSign of a directory, and Verify with a directory as either path,
\* return an error with nothing done but os.Stat.
C10_DirectoryRejectedFirst ==
    /\ (last.op = "ClearSign" /\ fs[last.chartpath].kind = "dir")
          => /\ ~last.panic /\ last.err # NilErr
             /\ Range(last.steps) \subseteq {"stat"}
    /\ (/\ last.op = "Verify"
        /\ (fs[last.chartpath].kind = "dir" \/ fs[last.sigpath].kind = "dir"))
          => /\ last.err \in {ErrVerifyDir, ErrStat}
             /\ last.steps = <<"stat">>

====
